---- MODULE Spec2Model ----
(***************************************************************************)
(* Verification model of the profiling_package scripts:                    *)
(*   sample_audio.py  MFCC extraction and export of a C header             *)
(*   sample_img.py    grayscale/downscale/HoG extraction and export        *)
(*   sample_dl.py     live-capture inference loop with an fps overlay      *)
(* Text is modelled as a sequence of one-character strings, a float as an  *)
(* integer number of millionths (or a tagged non-finite / non-numeric      *)
(* element), a file system as a map from file names to file contents.      *)
(***************************************************************************)
EXTENDS Integers, Sequences, FiniteSets, TLC

VARIABLES
    script,            \* which module's functions run: "audio" | "img" | "dl"
    entry,             \* "main" (__main__), "export" / "process" (a direct call)
    pc,                \* position of the export scripts
    fs,                \* file system: file name -> [exists, text]
    fs0,               \* the file system as it was when the run started
    out,               \* lines printed so far
    exc,               \* exception that ended the call, "none" otherwise
    flat_data,         \* export_to_header: the elements being written
    var_name,          \* export_to_header: var_name
    filename,          \* export_to_header: filename
    i,                 \* export_to_header: index of the for loop (0-based)
    ret,               \* where export_to_header returns to
    calls,             \* number of export_to_header invocations so far
    img,               \* process_for_edge_profiling: result of cv2.imread
    downscale_factor,  \* process_for_edge_profiling: downscale_factor
    new_size,          \* process_for_edge_profiling: new_size (width, height)
    resized,           \* process_for_edge_profiling: result of cv2.resize
    features,          \* extracted feature vector (HoG or MFCC mean)
    dpc,               \* run_inference: position
    cap,               \* run_inference: capture device "none"|"opened"|"closed"|"released"
    acquired,          \* run_inference: number of cv2.VideoCapture(0) calls
    start_time,        \* run_inference: start_time (clock ticks)
    end_time,          \* run_inference: end_time (clock ticks)
    fps,               \* run_inference: fps as a fraction [num, den]
    key,               \* run_inference: last value returned by cv2.waitKey(1)
    derr,              \* run_inference: exception that ended the run
    grabbed,           \* run_inference: ret of the last cap.read()
    shown              \* run_inference: frames displayed so far (saturating)

exportVars == <<script, entry, pc, fs, fs0, out, exc, flat_data, var_name,
                filename, i, ret, calls, img, downscale_factor, new_size,
                resized, features>>
dlVars == <<dpc, cap, acquired, start_time, end_time, fps, key, derr, grabbed,
           shown>>
vars == <<exportVars, dlVars>>

(***************************************************************************)
(* Bounds of the model.                                                    *)
(***************************************************************************)
MaxLen == 17
MaxDim == 4
MaxFactor == 3
MaxContent == 1
MaxTick == 3
MaxShown == 2

(***************************************************************************)
(* Text helpers.                                                           *)
(***************************************************************************)
LowerChars == <<"a", "b", "c", "d", "e", "f", "g", "h", "i", "j", "k", "l", "m",
                "n", "o", "p", "q", "r", "s", "t", "u", "v", "w", "x", "y", "z">>
UpperChars == <<"A", "B", "C", "D", "E", "F", "G", "H", "I", "J", "K", "L", "M",
                "N", "O", "P", "Q", "R", "S", "T", "U", "V", "W", "X", "Y", "Z">>
DigitChars == <<"0", "1", "2", "3", "4", "5", "6", "7", "8", "9">>

Range(s) == {s[k] : k \in DOMAIN s}

\* str.upper() on one character
UpperChar(c) ==
    IF \E k \in DOMAIN LowerChars : LowerChars[k] = c
    THEN UpperChars[CHOOSE k \in DOMAIN LowerChars : LowerChars[k] = c]
    ELSE c

\* str.upper()
Upper(s) == [k \in DOMAIN s |-> UpperChar(s[k])]

\* str(n) for a natural number n
RECURSIVE NatStr(_)
NatStr(n) ==
    IF n < 10 THEN <<DigitChars[n + 1]>>
    ELSE NatStr(n \div 10) \o <<DigitChars[(n % 10) + 1]>>

\* sep.join(parts)
RECURSIVE Join(_, _)
Join(parts, sep) ==
    IF parts = <<>> THEN <<>>
    ELSE IF Len(parts) = 1 THEN parts[1]
    ELSE parts[1] \o sep \o Join(Tail(parts), sep)

(***************************************************************************)
(* Elements of a vector.  A finite float is [t |-> "num", v |-> millionths]*)
(* (the inputs used are exactly representable or far from a rounding tie,  *)
(* so decimal rounding agrees with the rounding of the binary double);     *)
(* "nan", "inf", "-inf" are the non-finite floats and "obj" is an element  *)
(* that is no number (None, a str) and has no 'f' format.                  *)
(***************************************************************************)
Num(v) == [t |-> "num", v |-> v]
Special(t) == [t |-> t, v |-> 0]

Abs(v) == IF v < 0 THEN 0 - v ELSE v

\* round-half-even of a (millionths, >= 0) to ten-thousandths
Round4(a) ==
    LET q == a \div 100
        r == a % 100
    IN  IF r > 50 THEN q + 1
        ELSE IF r < 50 THEN q
        ELSE IF q % 2 = 0 THEN q ELSE q + 1

Pad4(n) ==
    <<DigitChars[((n \div 1000) % 10) + 1], DigitChars[((n \div 100) % 10) + 1],
      DigitChars[((n \div 10) % 10) + 1], DigitChars[(n % 10) + 1]>>

Formattable(x) == x.t # "obj"

\* f"{x:.4f}" for a float x
Fmt4(x) ==
    CASE x.t = "nan" -> <<"n", "a", "n">>
      [] x.t = "inf" -> <<"i", "n", "f">>
      [] x.t = "-inf" -> <<"-", "i", "n", "f">>
      [] OTHER ->
           LET m == Round4(Abs(x.v))
           IN  (IF x.v < 0 THEN <<"-">> ELSE <<>>)
               \o NatStr(m \div 10000) \o <<".">> \o Pad4(m % 10000)

\* f"{x:.4f}f"
Literal(x) == Fmt4(x) \o <<"f">>

\* ", ".join([f"{x:.4f}f" for x in xs])
JoinLiterals(xs) == Join([k \in DOMAIN xs |-> Literal(xs[k])], <<",", " ">>)

(***************************************************************************)
(* Inputs: variable names, vectors, images.                                *)
(***************************************************************************)
NameFoo == <<"f", "o", "o">>
NameAudio == <<"a", "u", "d", "i", "o", "_", "f", "i", "n", "g", "e", "r", "p", "r", "i", "n", "t">>
NameImage == <<"i", "n", "p", "u", "t", "_", "i", "m", "a", "g", "e", "_", "g", "r", "a", "y">>
NameHog == <<"h", "o", "g", "_", "f", "e", "a", "t", "u", "r", "e", "s">>
NameSpace == <<"a", " ", "b">>
NameEmpty == <<>>
Names == {NameFoo, NameAudio, NameSpace, NameEmpty}

\* 1.0, -2.5, 0.333333, 0.0, -0.00001, 0.03125, 0.99996, 255.0
BaseVals == <<1000000, -2500000, 333333, 0, -10, 31250, 999960, 255000000>>
Specials == {"none", "nan", "inf", "-inf", "obj"}

\* A vector of n elements; with sp # "none" its middle element is special.
Vec(n, sp) ==
    [k \in 1..n |->
        IF sp # "none" /\ k = (n + 1) \div 2 THEN Special(sp)
        ELSE Num(BaseVals[((k - 1) % Len(BaseVals)) + 1])]
Vectors == {Vec(n, sp) : n \in 0..MaxLen, sp \in Specials}

FileNames == {"audio_features.h", "edge_data.h", "image_input.h", "features_input.h"}
NoFile == [exists |-> FALSE, text |-> <<>>]
OldFile == [exists |-> TRUE, text |-> <<"o", "l", "d">>]

(***************************************************************************)
(* export_to_header: the text of each f.write.                             *)
(***************************************************************************)
\* f"#ifndef {var_name.upper()}_H\n#define {var_name.upper()}_H\n\n"
GuardText(var) ==
    <<"#", "i", "f", "n", "d", "e", "f", " ">> \o Upper(var)
    \o <<"_", "H", "\n", "#", "d", "e", "f", "i", "n", "e", " ">> \o Upper(var)
    \o <<"_", "H", "\n", "\n">>

\* f"// Extracted MFCC Feature Vector (13 coefficients)\n"
CommentText ==
    <<"/", "/", " ", "E", "x", "t", "r", "a", "c", "t", "e", "d", " ", "M", "F", "C", "C",
      " ", "F", "e", "a", "t", "u", "r", "e", " ", "V", "e", "c", "t", "o", "r", " ", "(",
      "1", "3", " ", "c", "o", "e", "f", "f", "i", "c", "i", "e", "n", "t", "s", ")", "\n">>

\* sample_audio: f"const float {var_name}[13] = {{\n"
DeclAudio(var) ==
    <<"c", "o", "n", "s", "t", " ", "f", "l", "o", "a", "t", " ">> \o var
    \o <<"[", "1", "3", "]", " ", "=", " ", "{", "\n">>

\* sample_img: f"const float {var_name}[{len(flat_data)}] = {{\n"
DeclImg(var, n) ==
    <<"c", "o", "n", "s", "t", " ", "f", "l", "o", "a", "t", " ">> \o var
    \o <<"[">> \o NatStr(n) \o <<"]", " ", "=", " ", "{", "\n">>

\* sample_audio: "    " + ", ".join([...]) + "\n"
LineAudio(xs) == <<" ", " ", " ", " ">> \o JoinLiterals(xs) \o <<"\n">>

\* sample_img: "    " + ", ".join([...]) + ",\n"
LineImg(xs) == <<" ", " ", " ", " ">> \o JoinLiterals(xs) \o <<",", "\n">>

\* "};\n\n#endif"
EndText == <<"}", ";", "\n", "\n", "#", "e", "n", "d", "i", "f">>

Min(a, b) == IF a < b THEN a ELSE b

\* range(0, len(flat_data), 8) advances by this step
ValuesPerLine == 8

\* a slice that is one element short: flat_data[i:i+7]
SliceShort(xs, lo) ==
    IF lo >= Len(xs) THEN <<>>
    ELSE SubSeq(xs, lo + 1, Min(lo + ValuesPerLine - 1, Len(xs)))

\* flat_data[i:i+8] (i is 0-based)
Slice(xs, lo) ==
    IF lo >= Len(xs) THEN <<>>
    ELSE SubSeq(xs, lo + 1, Min(lo + ValuesPerLine, Len(xs)))

DefaultFile(s) == IF s = "audio" THEN "audio_features.h" ELSE "edge_data.h"

\* f.write(text) on the file opened at `filename`
Write(text) == fs' = [fs EXCEPT ![filename].text = @ \o text]

(***************************************************************************)
(* Exception propagation out of the running call.                          *)
(*   sample_audio __main__ catches FileNotFoundError only (line 51)        *)
(*   sample_img __main__ catches Exception (line 70)                       *)
(*   a direct call has no handler of its own: the exception reaches the    *)
(*   caller                                                                *)
(***************************************************************************)
\* __main__ without its try/except: every exception ends the program
HandlerMissing(e) == IF entry = "main" THEN "crashed" ELSE "raised"

HandlerFor(e) ==
    IF entry = "main" /\ script = "img" THEN "except"
    ELSE IF entry = "main" /\ script = "audio" /\ e = "FileNotFoundError" THEN "except"
    ELSE IF entry = "main" THEN "crashed"
    ELSE "raised"

Raise(e) == pc' = HandlerFor(e) /\ exc' = e

procVars == <<img, downscale_factor, new_size, resized, features>>
callVars == <<flat_data, var_name, filename, i, ret, calls>>

(***************************************************************************)
(* export_to_header, one action per statement.                             *)
(***************************************************************************)
\* a direct call export_to_header(data, var_name) with the default filename
CallExport ==
    /\ script \in {"audio", "img"} /\ entry = "export" /\ pc = "start"
    /\ \E xs \in Vectors, name \in Names :
          /\ flat_data' = xs
          /\ var_name' = name
    /\ filename' = DefaultFile(script)
    /\ i' = 0
    /\ ret' = "returned"
    /\ calls' = calls + 1
    /\ pc' = "x_open"
    /\ UNCHANGED <<script, entry, fs, fs0, out, exc, procVars, dlVars>>

\* with open(filename, "w") as f: creates or truncates the file
ExportOpen ==
    /\ pc = "x_open"
    /\ fs' = [fs EXCEPT ![filename] = [exists |-> TRUE, text |-> <<>>]]
    /\ pc' = "x_guard"
    /\ UNCHANGED <<script, entry, fs0, out, exc, callVars, procVars, dlVars>>

ExportWriteGuard ==
    /\ pc = "x_guard"
    /\ Write(GuardText(var_name))
    /\ pc' = IF script = "audio" THEN "x_comment" ELSE "x_decl"
    /\ UNCHANGED <<script, entry, fs0, out, exc, callVars, procVars, dlVars>>

\* sample_audio only
ExportWriteComment ==
    /\ pc = "x_comment"
    /\ Write(CommentText)
    /\ pc' = "x_decl"
    /\ UNCHANGED <<script, entry, fs0, out, exc, callVars, procVars, dlVars>>

ExportWriteDecl ==
    /\ pc = "x_decl"
    /\ Write(IF script = "audio" THEN DeclAudio(var_name)
              ELSE DeclImg(var_name, Len(flat_data)))
    /\ pc' = IF script = "audio" THEN "x_values" ELSE "x_loop"
    /\ UNCHANGED <<script, entry, fs0, out, exc, callVars, procVars, dlVars>>

\* sample_audio line 35: the whole vector on one line; formatting an element
\* that has no 'f' format raises before the line is written, and the with
\* block closes the file as the exception leaves it
ExportWriteValues ==
    /\ pc = "x_values"
    /\ \/ /\ \A k \in DOMAIN flat_data : Formattable(flat_data[k])
          /\ Write(LineAudio(flat_data))
          /\ pc' = "x_end"
          /\ UNCHANGED exc
       \/ /\ \E k \in DOMAIN flat_data : ~Formattable(flat_data[k])
          /\ Raise("TypeError")
          /\ UNCHANGED fs
    /\ UNCHANGED <<script, entry, fs0, out, callVars, procVars, dlVars>>

\* sample_img lines 48-49: one iteration of the for loop, or its end
ExportLoop ==
    /\ pc = "x_loop"
    /\ \/ /\ i < Len(flat_data)
          /\ \A k \in DOMAIN Slice(flat_data, i) : Formattable(Slice(flat_data, i)[k])
          /\ Write(LineImg(Slice(flat_data, i)))
          /\ i' = i + ValuesPerLine
          /\ UNCHANGED <<pc, exc>>
       \/ /\ i < Len(flat_data)
          /\ \E k \in DOMAIN Slice(flat_data, i) : ~Formattable(Slice(flat_data, i)[k])
          /\ Raise("TypeError")
          /\ UNCHANGED <<fs, i>>
       \/ /\ i >= Len(flat_data)
          /\ pc' = "x_end"
          /\ UNCHANGED <<fs, i, exc>>
    /\ UNCHANGED <<script, entry, fs0, out, flat_data, var_name, filename, ret,
                   calls, procVars, dlVars>>

ExportWriteEnd ==
    /\ pc = "x_end"
    /\ Write(EndText)
    /\ pc' = "x_close"
    /\ UNCHANGED <<script, entry, fs0, out, exc, callVars, procVars, dlVars>>

\* the with block ends, the success line is printed, the function returns
ExportReturn ==
    /\ pc = "x_close"
    /\ out' = Append(out, "exported")
    /\ pc' = ret
    /\ UNCHANGED <<script, entry, fs, fs0, exc, callVars, procVars, dlVars>>

(***************************************************************************)
(* sample_audio.py: extract_edge_features and __main__.                    *)
(***************************************************************************)
\* librosa.feature.mfcc(..., n_mfcc=13)
NumMfcc == 13

\* np.mean(mfccs, axis=1): one finite value per coefficient
MfccMeans == {Vec(NumMfcc, "none")}

\* line 45 with lines 12-25: librosa.load finds and decodes the file, or the
\* file is missing (FileNotFoundError), or it cannot be decoded
AudioExtract ==
    /\ script = "audio" /\ entry = "main" /\ pc = "start"
    /\ out' = Append(out, <<"Loading ", "test.wav">>)
    /\ \/ /\ \E m \in MfccMeans : features' = m
          /\ pc' = "a_print"
          /\ UNCHANGED exc
       \/ /\ Raise("FileNotFoundError")
          /\ UNCHANGED features
       \/ /\ Raise("DecodeError")
          /\ UNCHANGED features
    /\ UNCHANGED <<script, entry, fs, fs0, callVars, img, downscale_factor,
                   new_size, resized, dlVars>>

\* lines 46 and 49: print the vector, call export_to_header(features,
\* "audio_fingerprint") with the default filename
AudioCallExport ==
    /\ script = "audio" /\ pc = "a_print"
    /\ out' = Append(out, <<"Extracted MFCC Vector: ">>)
    /\ flat_data' = features
    /\ var_name' = NameAudio
    /\ filename' = DefaultFile("audio")
    /\ i' = 0
    /\ ret' = "done"
    /\ calls' = calls + 1
    /\ pc' = "x_open"
    /\ UNCHANGED <<script, entry, fs, fs0, exc, procVars, dlVars>>

(***************************************************************************)
(* sample_img.py: process_for_edge_profiling and __main__.                 *)
(***************************************************************************)
NoImage == [loaded |-> FALSE, h |-> 0, w |-> 0, c |-> 0]
Image(h, w, c) == [loaded |-> TRUE, h |-> h, w |-> w, c |-> c]

\* the default of downscale_factor
DefaultFactor == 2

\* the two axes taken in the order of shape: (height, width)
NewSizeSwapped(gray, f) == <<gray.h \div f, gray.w \div f>>

\* line 25: (gray.shape[1] // downscale_factor, gray.shape[0] // downscale_factor)
NewSize(gray, f) == <<gray.w \div f, gray.h \div f>>

\* cv2.resize(gray, dsize): dsize is (width, height), the result has
\* dsize[1] rows and dsize[0] columns; its pixels are a function of the
\* content of the source
ResizeTo(gray, dsize) == Image(dsize[2], dsize[1], gray.c)

\* pixel k of an image of content c, a value in 0..255
Pixel(c, k) == (c * 97 + k * 41) % 256

\* data.flatten() of an image, as floats
Flatten(im) == [k \in 1..(im.h * im.w) |-> Num(Pixel(im.c, k) * 1000000)]

\* hog(...) returns a vector of 8 orientations per cell
HogOutputs == {Vec(n, "none") : n \in {0, 8, 16}}

\* __main__ line 59: process_for_edge_profiling(INPUT_FILE)
ImgMainStart ==
    /\ script = "img" /\ entry = "main" /\ pc = "start"
    /\ downscale_factor' = DefaultFactor
    /\ pc' = "p_imread"
    /\ UNCHANGED <<script, entry, fs, fs0, out, exc, callVars, img, new_size,
                   resized, features, dlVars>>

\* a direct call process_for_edge_profiling(path, f) with f >= 1
CallProcess ==
    /\ script = "img" /\ entry = "process" /\ pc = "start"
    /\ \E f \in 1..MaxFactor : downscale_factor' = f
    /\ pc' = "p_imread"
    /\ UNCHANGED <<script, entry, fs, fs0, out, exc, callVars, img, new_size,
                   resized, features, dlVars>>

\* lines 16-18: cv2.imread returns an image or None
Imread ==
    /\ pc = "p_imread"
    /\ \/ /\ \E h \in 1..MaxDim, w \in 1..MaxDim, c \in 0..MaxContent :
                img' = Image(h, w, c)
          /\ pc' = "p_newsize"
          /\ UNCHANGED exc
       \/ /\ img' = NoImage
          /\ Raise("FileNotFoundError")
    /\ UNCHANGED <<script, entry, fs, fs0, out, callVars, downscale_factor,
                   new_size, resized, features, dlVars>>

\* lines 21 and 25: grayscale keeps the shape; the requested size
ComputeNewSize ==
    /\ pc = "p_newsize"
    /\ new_size' = NewSize(img, downscale_factor)
    /\ pc' = "p_resize"
    /\ UNCHANGED <<script, entry, fs, fs0, out, exc, callVars, img,
                   downscale_factor, resized, features, dlVars>>

\* line 26: cv2.resize rejects an empty dsize
Resize ==
    /\ pc = "p_resize"
    /\ \/ /\ new_size[1] > 0 /\ new_size[2] > 0
          /\ resized' = ResizeTo(img, new_size)
          /\ pc' = "p_hog"
          /\ UNCHANGED exc
       \/ /\ new_size[1] = 0 \/ new_size[2] = 0
          /\ Raise("cv2.error")
          /\ UNCHANGED resized
    /\ UNCHANGED <<script, entry, fs, fs0, out, callVars, img, downscale_factor,
                   new_size, features, dlVars>>

\* lines 30-36: HoG features, return
Hog ==
    /\ pc = "p_hog"
    /\ \E v \in HogOutputs : features' = v
    /\ pc' = IF entry = "main" THEN "i_print" ELSE "returned"
    /\ UNCHANGED <<script, entry, fs, fs0, out, exc, callVars, img,
                   downscale_factor, new_size, resized, dlVars>>

\* lines 61-62 and 67: export_to_header(img_data, "input_image_gray", "image_input.h")
ImgCallExport1 ==
    /\ pc = "i_print"
    /\ out' = out \o << <<"Original Image -> Processed Shape: ">>,
                        <<"Extracted ", "HoG features for profiling.">> >>
    /\ flat_data' = Flatten(resized)
    /\ var_name' = NameImage
    /\ filename' = "image_input.h"
    /\ i' = 0
    /\ ret' = "i_export2"
    /\ calls' = calls + 1
    /\ pc' = "x_open"
    /\ UNCHANGED <<script, entry, fs, fs0, exc, procVars, dlVars>>

\* line 68: export_to_header(feature_data, "hog_features", "features_input.h")
ImgCallExport2 ==
    /\ pc = "i_export2"
    /\ flat_data' = features
    /\ var_name' = NameHog
    /\ filename' = "features_input.h"
    /\ i' = 0
    /\ ret' = "done"
    /\ calls' = calls + 1
    /\ pc' = "x_open"
    /\ UNCHANGED <<script, entry, fs, fs0, out, exc, procVars, dlVars>>

\* str(e) of the exception raised
ExcMessage(e) ==
    IF e = "FileNotFoundError" THEN <<"Could not load ", "test_image.jpg">>
    ELSE <<e>>

\* sample_audio lines 51-53 and sample_img lines 70-72: the error line and
\* the remediation tip
Except ==
    /\ pc = "except"
    /\ out' = out \o
         (IF script = "audio"
          THEN << <<"Error: ", "test.wav", " not found.">>,
                  <<"Tip: Run 'arecord --duration=5 test.wav' first as per Lab Section 3.">> >>
          ELSE << <<"Error: ">> \o ExcMessage(exc),
                  <<"Tip: Ensure 'test_image.jpg' from the Analytics lab is in this folder.">> >>)
    /\ pc' = "done"
    /\ UNCHANGED <<script, entry, fs, fs0, exc, callVars, procVars, dlVars>>

(***************************************************************************)
(* The export scripts: initial states and next-state relation.             *)
(***************************************************************************)
DlIdle ==
    /\ dpc = "idle" /\ cap = "none" /\ acquired = 0
    /\ start_time = 0 /\ end_time = 0
    /\ fps = [num |-> 0, den |-> 1]
    /\ key = -1 /\ derr = "none" /\ grabbed = FALSE /\ shown = 0

ExportIdle ==
    /\ fs = fs0 /\ out = <<>> /\ exc = "none"
    /\ flat_data = <<>> /\ var_name = <<>> /\ i = 0 /\ ret = "done" /\ calls = 0
    /\ img = NoImage /\ downscale_factor = DefaultFactor /\ new_size = <<0, 0>>
    /\ resized = NoImage /\ features = <<>>

InitExport ==
    /\ script \in {"audio", "img"}
    /\ entry \in {"main", "export", "process"}
    /\ entry = "process" => script = "img"
    /\ pc = "start"
    /\ fs0 \in {[n \in FileNames |-> NoFile], [n \in FileNames |-> OldFile]}
    /\ filename = DefaultFile(script)
    /\ ExportIdle
    /\ DlIdle

NextExport ==
    \/ CallExport \/ ExportOpen \/ ExportWriteGuard \/ ExportWriteComment
    \/ ExportWriteDecl \/ ExportWriteValues \/ ExportLoop \/ ExportWriteEnd
    \/ ExportReturn
    \/ AudioExtract \/ AudioCallExport
    \/ ImgMainStart \/ CallProcess \/ Imread \/ ComputeNewSize \/ Resize \/ Hog
    \/ ImgCallExport1 \/ ImgCallExport2 \/ Except

SpecExport == InitExport /\ [][NextExport]_vars

(***************************************************************************)
(* sample_dl.py: run_inference.                                            *)
(***************************************************************************)
\* ord('q')
OrdQ == 113

\* values cv2.waitKey(1) returns: no key, 'q', 'q' with a modifier bit set
\* above the low byte, 'a'
Keys == {-1, 113, 369, 97}

\* the comparison without the mask: cv2.waitKey(1) == ord('q')
IsQuitUnmasked(k) == k = OrdQ

\* cv2.waitKey(1) & 0xFF == ord('q')
IsQuit(k) == (k % 256) = OrdQ

\* readings of time.time(), in ticks; the wall clock need not advance
\* between two readings
Ticks == 0..MaxTick

\* 1 / (end_time - start_time), kept as a fraction
Fps(s, e) == [num |-> 1, den |-> e - s]

\* an exception nothing in run_inference catches ends the run
DlRaise(e) == dpc' = "raised" /\ derr' = e

\* lines 37-39: load_model(quantized=False)
LoadModel ==
    /\ dpc = "load_model"
    /\ \/ dpc' = "open_cap" /\ UNCHANGED derr
       \/ DlRaise("RuntimeError")
    /\ UNCHANGED <<cap, acquired, start_time, end_time, fps, key, grabbed, shown,
                   exportVars>>

\* line 40: cap = cv2.VideoCapture(0); the device opens or not
OpenCapture ==
    /\ dpc = "open_cap"
    /\ acquired' = acquired + 1
    /\ \E c \in {"opened", "closed"} : cap' = c
    /\ dpc' = "loop_test"
    /\ UNCHANGED <<start_time, end_time, fps, key, derr, grabbed, shown, exportVars>>

\* line 44: while cap.isOpened()
LoopTest ==
    /\ dpc = "loop_test"
    /\ dpc' = IF cap = "opened" THEN "read" ELSE "release"
    /\ UNCHANGED <<cap, acquired, start_time, end_time, fps, key, derr, grabbed,
                   shown, exportVars>>

\* lines 45-46: ret, frame = cap.read(); if not ret: break
Read ==
    /\ dpc = "read"
    /\ \E r \in BOOLEAN :
          /\ grabbed' = r
          /\ dpc' = IF r THEN "start_timer" ELSE "release"
    /\ UNCHANGED <<cap, acquired, start_time, end_time, fps, key, derr, shown,
                   exportVars>>

\* line 48: start_time = time.time()
StartTimer ==
    /\ dpc = "start_timer"
    /\ \E t \in Ticks : start_time' = t
    /\ dpc' = "preprocess"
    /\ UNCHANGED <<cap, acquired, end_time, fps, key, derr, grabbed, shown,
                   exportVars>>

\* line 51: preprocess_frame(frame)
Preprocess ==
    /\ dpc = "preprocess"
    /\ \/ dpc' = "infer" /\ UNCHANGED derr
       \/ DlRaise("cv2.error")
    /\ UNCHANGED <<cap, acquired, start_time, end_time, fps, key, grabbed, shown,
                   exportVars>>

\* lines 54-55: output = model(input_tensor)
Infer ==
    /\ dpc = "infer"
    /\ \/ dpc' = "stop_timer" /\ UNCHANGED derr
       \/ DlRaise("RuntimeError")
    /\ UNCHANGED <<cap, acquired, start_time, end_time, fps, key, grabbed, shown,
                   exportVars>>

\* line 58: end_time = time.time()
StopTimer ==
    /\ dpc = "stop_timer"
    /\ \E t \in Ticks : end_time' = t
    /\ dpc' = "fps"
    /\ UNCHANGED <<cap, acquired, start_time, fps, key, derr, grabbed, shown,
                   exportVars>>

\* line 59: fps = 1 / (end_time - start_time)
ComputeFps ==
    /\ dpc = "fps"
    /\ \/ /\ end_time - start_time # 0
          /\ fps' = Fps(start_time, end_time)
          /\ dpc' = "display"
          /\ UNCHANGED derr
       \/ /\ end_time - start_time = 0
          /\ DlRaise("ZeroDivisionError")
          /\ UNCHANGED fps
    /\ UNCHANGED <<cap, acquired, start_time, end_time, key, grabbed, shown,
                   exportVars>>

\* lines 62-65: cv2.putText, cv2.imshow
Display ==
    /\ dpc = "display"
    /\ \/ /\ shown' = Min(shown + 1, MaxShown)
          /\ dpc' = "waitkey"
          /\ UNCHANGED derr
       \/ /\ DlRaise("cv2.error")
          /\ UNCHANGED shown
    /\ UNCHANGED <<cap, acquired, start_time, end_time, fps, key, grabbed,
                   exportVars>>

\* lines 67-68: if cv2.waitKey(1) & 0xFF == ord('q'): break
WaitKey ==
    /\ dpc = "waitkey"
    /\ \E k \in Keys :
          /\ key' = k
          /\ dpc' = IF IsQuit(k) THEN "release" ELSE "loop_test"
    /\ UNCHANGED <<cap, acquired, start_time, end_time, fps, derr, grabbed, shown,
                   exportVars>>

\* line 70: cap.release()
Release ==
    /\ dpc = "release"
    /\ cap' = "released"
    /\ dpc' = "destroy"
    /\ UNCHANGED <<acquired, start_time, end_time, fps, key, derr, grabbed, shown,
                   exportVars>>

\* line 71: cv2.destroyAllWindows()
DestroyWindows ==
    /\ dpc = "destroy"
    /\ dpc' = "done"
    /\ UNCHANGED <<cap, acquired, start_time, end_time, fps, key, derr, grabbed,
                   shown, exportVars>>

InitDl ==
    /\ script = "dl" /\ entry = "main" /\ pc = "idle"
    /\ fs0 = [n \in FileNames |-> NoFile]
    /\ filename = DefaultFile(script)
    /\ ExportIdle
    /\ dpc = "load_model" /\ cap = "none" /\ acquired = 0
    /\ start_time = 0 /\ end_time = 0
    /\ fps = [num |-> 0, den |-> 1]
    /\ key = -1 /\ derr = "none" /\ grabbed = FALSE /\ shown = 0

NextDl ==
    \/ LoadModel \/ OpenCapture \/ LoopTest \/ Read \/ StartTimer \/ Preprocess
    \/ Infer \/ StopTimer \/ ComputeFps \/ Display \/ WaitKey \/ Release
    \/ DestroyWindows

SpecDl == InitDl /\ [][NextDl]_vars

\* one thread runs the statements of run_inference in sequence: a statement
\* that can run does run
FairSpecDl == SpecDl /\ WF_vars(NextDl)

(***************************************************************************)
(* Reading a written header back: lines, the declared length, the values.  *)
(***************************************************************************)
Terminal == {"done", "crashed", "raised", "returned"}

\* the last export_to_header call has returned normally; flat_data,
\* var_name and filename are still those of that call
ExportCompleted ==
    /\ calls > 0 /\ exc = "none"
    /\ pc \in {"returned", "i_export2", "done"}

Written == fs[filename].text

RECURSIVE SplitOn(_, _)
SplitOn(s, c) ==
    IF \A k \in DOMAIN s : s[k] # c THEN <<s>>
    ELSE LET k == CHOOSE j \in DOMAIN s : s[j] = c /\ \A m \in 1..(j - 1) : s[m] # c
         IN  <<SubSeq(s, 1, k - 1)>> \o SplitOn(SubSeq(s, k + 1, Len(s)), c)

RECURSIVE Trim(_)
Trim(s) ==
    IF s = <<>> THEN s
    ELSE IF Head(s) = " " THEN Trim(Tail(s))
    ELSE IF s[Len(s)] = " " THEN Trim(SubSeq(s, 1, Len(s) - 1))
    ELSE s

HasPrefix(s, p) == Len(s) >= Len(p) /\ SubSeq(s, 1, Len(p)) = p
HasSuffix(s, p) == Len(s) >= Len(p) /\ SubSeq(s, Len(s) - Len(p) + 1, Len(s)) = p

LinesOf(text) == SplitOn(text, "\n")

ConstFloat == <<"c", "o", "n", "s", "t", " ", "f", "l", "o", "a", "t", " ">>

DeclIndex(lines) == CHOOSE k \in DOMAIN lines : HasPrefix(lines[k], ConstFloat)
CloseIndex(lines) == CHOOSE k \in DOMAIN lines : lines[k] = <<"}", ";">>

DigitValue(c) == (CHOOSE k \in DOMAIN DigitChars : DigitChars[k] = c) - 1

RECURSIVE ParseNat(_)
ParseNat(s) ==
    IF s = <<>> THEN 0
    ELSE 10 * ParseNat(SubSeq(s, 1, Len(s) - 1)) + DigitValue(s[Len(s)])

\* the N of `const float <var>[N] = {`
DeclaredLength(text) ==
    LET line == LinesOf(text)[DeclIndex(LinesOf(text))]
        open == CHOOSE k \in DOMAIN line : line[k] = "[" /\ \A m \in 1..(k - 1) : line[m] # "["
        close == CHOOSE k \in DOMAIN line : line[k] = "]" /\ \A m \in 1..(k - 1) : line[m] # "]"
    IN  ParseNat(SubSeq(line, open + 1, close - 1))

\* the lines between the declaration and the closing `};`
ValueLines(text) ==
    LET lines == LinesOf(text)
    IN  SubSeq(lines, DeclIndex(lines) + 1, CloseIndex(lines) - 1)

\* the literals of one value line, in order
ValuesOnLine(line) ==
    LET parts == SplitOn(line, ",")
    IN  SelectSeq([k \in DOMAIN parts |-> Trim(parts[k])], LAMBDA v : v # <<>>)

RECURSIVE Concat(_)
Concat(ss) == IF ss = <<>> THEN <<>> ELSE Head(ss) \o Concat(Tail(ss))

WrittenValues(text) ==
    LET vl == ValueLines(text)
    IN  Concat([k \in DOMAIN vl |-> ValuesOnLine(vl[k])])

IsAlnumOrUnderscore(c) ==
    c \in Range(LowerChars) \cup Range(UpperChars) \cup Range(DigitChars) \cup {"_"}
ValidName(name) == name # <<>> /\ \A k \in DOMAIN name : IsAlnumOrUnderscore(name[k])
Finite(x) == x.t = "num"
AllFinite(xs) == \A k \in DOMAIN xs : Finite(xs[k])

(***************************************************************************)
(* Claims about export_to_header and the export scripts (SpecExport).      *)
(***************************************************************************)
CeilDiv(a, b) == (a + b - 1) \div b

\* C1: after export_to_header returns, the length N written in the
\* declaration `const float <var>[<N>]` equals the number of values written
\* between the braces, which is the element count of the input, for every
\* input length.
C1_DeclaredLengthIsCount ==
    ExportCompleted =>
        /\ DeclaredLength(Written) = Len(WrittenValues(Written))
        /\ DeclaredLength(Written) = Len(flat_data)

\* the text of section 4.1 for a name and a vector that fits on one line
GoldenText(var, xs) ==
    <<"#", "i", "f", "n", "d", "e", "f", " ">> \o Upper(var) \o <<"_", "H", "\n">>
    \o <<"#", "d", "e", "f", "i", "n", "e", " ">> \o Upper(var) \o <<"_", "H", "\n">>
    \o <<"\n">>
    \o ConstFloat \o var \o <<"[">> \o NatStr(Len(xs)) \o <<"]", " ", "=", " ", "{", "\n">>
    \o <<" ", " ", " ", " ">> \o JoinLiterals(xs) \o <<"\n">>
    \o <<"}", ";", "\n">>
    \o <<"\n">>
    \o <<"#", "e", "n", "d", "i", "f">>

\* the value line expected for [1.0, -2.5, 0.333333]
GoldenFooLine ==
    <<" ", " ", " ", " ", "1", ".", "0", "0", "0", "0", "f", ",", " ",
      "-", "2", ".", "5", "0", "0", "0", "f", ",", " ",
      "0", ".", "3", "3", "3", "3", "f">>

\* C2: for a valid variable name and a finite vector of 1 to 8 elements,
\* the text written is exactly the include guard, an empty line, the
\* declaration, one value line without a trailing separator, `};`, an empty
\* line and `#endif`, with nothing else; for [1.0, -2.5, 0.333333] and foo
\* the value line is `    1.0000f, -2.5000f, 0.3333f`.
C2_ExactHeaderText ==
    (/\ ExportCompleted
     /\ ValidName(var_name) /\ AllFinite(flat_data)
     /\ Len(flat_data) \in 1..ValuesPerLine) =>
        /\ Written = GoldenText(var_name, flat_data)
        /\ (var_name = NameFoo /\ flat_data = Vec(3, "none")) =>
               ValueLines(Written) = <<GoldenFooLine>>

\* C3: sample_img's export_to_header of N >= 1 elements writes ceil(N/8)
\* value lines, 8 values on every line but the last, the rest on the last,
\* and the values of the lines read in order are the literals of the input
\* in its order, each once.
C3_LineWrap ==
    (script = "img" /\ ExportCompleted /\ Len(flat_data) >= 1) =>
        LET vl == ValueLines(Written)
            n == Len(flat_data)
            last == CeilDiv(n, 8)
        IN  /\ Len(vl) = last
            /\ \A k \in 1..(last - 1) : Len(ValuesOnLine(vl[k])) = 8
            /\ Len(ValuesOnLine(vl[last])) = n - 8 * (last - 1)
            /\ WrittenValues(Written) = [k \in 1..n |-> Literal(flat_data[k])]

\* C3 witness: a 17-element vector has been exported by sample_img in three
\* value lines.
C3_Witness ==
    /\ script = "img" /\ ExportCompleted /\ Len(flat_data) = 17
    /\ Len(ValueLines(Written)) = 3

\* C4: a call of export_to_header with a vector of floats that holds a
\* non-finite element, or with an invalid variable name, ends in a validation error and leaves the output file as
\* it was before the call.
C4_InvalidInputRejected ==
    (/\ calls > 0 /\ pc \in Terminal
     /\ \A k \in DOMAIN flat_data : Formattable(flat_data[k])
     /\ (~ValidName(var_name) \/ \E k \in DOMAIN flat_data :
                                     flat_data[k].t \in {"nan", "inf", "-inf"})) =>
        /\ exc = "ValidationError"
        /\ fs[filename] = fs0[filename]

\* a whole header: it opens with the include guard and closes with #endif
CompleteHeader(text) ==
    /\ HasPrefix(text, <<"#", "i", "f", "n", "d", "e", "f", " ">>)
    /\ HasSuffix(text, <<"}", ";", "\n", "\n", "#", "e", "n", "d", "i", "f">>)

\* C5: when a run ends, every artifact file is absent, holds its previous
\* content, or holds a whole header: a failure while formatting an element
\* leaves no prefix of a header on disk.
C5_NoPartialArtifact ==
    pc \in Terminal =>
        \A n \in FileNames : fs[n] = fs0[n] \/ CompleteHeader(fs[n].text)

\* the file the script reads
InputFile == IF script = "audio" THEN "test.wav" ELSE "test_image.jpg"

IsErrorNaming(line, file) ==
    /\ line # <<>> /\ line[1] = "Error: "
    /\ \E k \in DOMAIN line : line[k] = file

IsTip(line) ==
    line \in { <<"Tip: Run 'arecord --duration=5 test.wav' first as per Lab Section 3.">>,
               <<"Tip: Ensure 'test_image.jpg' from the Analytics lab is in this folder.">> }

\* C6: in a run of __main__ in which the input cannot be loaded
\* (FileNotFoundError out of the extraction), export_to_header is never
\* called, no file is created or changed, the exception reaches the handler
\* and, when the program ends, an error line naming the input file has been
\* printed, followed by the remediation tip.
C6_ExtractionFailureWritesNothing ==
    (entry = "main" /\ exc = "FileNotFoundError") =>
        /\ calls = 0
        /\ fs = fs0
        /\ pc \in {"except", "done"}
        /\ pc = "done" =>
              /\ Len(out) >= 2
              /\ IsErrorNaming(out[Len(out) - 1], InputFile)
              /\ IsTip(out[Len(out)])

\* C6 witness: sample_img's __main__ has ended after imread returned None,
\* with files present before the run.
C6_Witness ==
    /\ script = "img" /\ entry = "main" /\ pc = "done"
    /\ exc = "FileNotFoundError" /\ ~img.loaded
    /\ fs0["image_input.h"] = OldFile

\* the requested size has been computed for a loaded image
SizeComputed == img.loaded /\ pc \notin {"start", "p_imread", "p_newsize"}

\* C10: for a loaded image of height H and width W and a factor f >= 1 the
\* size handed to cv2.resize is (width, height) = (W // f, H // f), and a
\* resized image has H // f rows and W // f columns, whatever the pixels.
C10_DownscaleSize ==
    (SizeComputed /\ downscale_factor >= 1) =>
        /\ new_size = <<img.w \div downscale_factor, img.h \div downscale_factor>>
        /\ resized.loaded =>
              /\ resized.h = img.h \div downscale_factor
              /\ resized.w = img.w \div downscale_factor

\* C10 witness: a 3 x 4 image has been resized with factor 2 to 1 x 2.
C10_Witness ==
    /\ pc = "returned" /\ entry = "process"
    /\ img.h = 3 /\ img.w = 4 /\ downscale_factor = 2
    /\ resized.loaded /\ resized.h = 1 /\ resized.w = 2

(***************************************************************************)
(* Claims about run_inference (SpecDl, FairSpecDl).                        *)
(***************************************************************************)
DlTerminal == {"done", "raised"}

\* C7: the capture device is acquired once, and in every state in which the
\* run has ended with the device acquired, the device has been released,
\* whichever way the run ended.
C7_ReleasedOnEveryPath ==
    /\ acquired <= 1
    /\ (dpc \in DlTerminal /\ acquired = 1) => cap = "released"

LoopExited == {"release", "destroy", "done"}

\* what a step of the loop may do once a stop has been seen
StopExitsStep ==
    /\ (dpc = "waitkey" /\ (key' % 256) = 113) => dpc' = "release"
    /\ (dpc = "read" /\ ~grabbed') => dpc' = "release"
    /\ dpc \in LoopExited => (dpc' \in LoopExited /\ shown' = shown)

\* C8: a key poll that reports the quit key, and a frame read that fails,
\* leave the loop in that same step; once the loop is left no frame is read,
\* processed or displayed again; and a run that has left the loop ends.
C8_StopExitsLoop ==
    /\ [][StopExitsStep]_vars
    /\ (dpc = "release") ~> (dpc = "done")

\* C8 witness: a run has ended after a frame was displayed and the key poll
\* returned 'q' with a modifier bit above the low byte.
C8_Witness ==
    dpc = "done" /\ key = 369 /\ shown >= 1 /\ cap = "released"

\* the sentinel of an undefined fps
FpsUndefined == [num |-> 1, den |-> 0]

\* C9: computing fps never raises a division fault, and when the latency
\* end_time - start_time of a frame is 0 its fps is the undefined sentinel
\* and the loop goes on.
C9_ZeroLatencyGuarded ==
    /\ derr # "ZeroDivisionError"
    /\ (dpc \in {"display", "waitkey"} /\ end_time = start_time) => fps = FpsUndefined

====
